---- MODULE Spec2Model ----
(***************************************************************************)
(* ZirnevisChi: the audio utilities of src/utils.py (STTProcessor,         *)
(* AudioDownloader, AudioSegmenter) and format_srt_time of src/main.py.    *)
(* Lengths and durations are in milliseconds, as pydub's len() gives them. *)
(***************************************************************************)
EXTENDS Integers, Sequences, FiniteSets, TLC

\* ------------------------------------------------------------------ bounds
\* number of workers that call transcribe_audio, each on a thread of its own
NumCalls == 1
\* number of chunks the workers transcribe between them
NumChunks == 1
\* max_retry is drawn from 0..MaxRetryBound
MaxRetryBound == 3
\* normalized durations are drawn around the 800 ms threshold
DurSpread == 1
\* uuid4 tokens are drawn from 1..NumTokens
NumTokens == 1
\* number of threads that run transcribe_audio at the same time
NumThreads == 2

\* audio positions lie on a grid of SegGran ms
SegGran == 250
\* the audio buffer is 0..MaxAudioUnits grid steps long
MaxAudioUnits == 6
\* max_segment_len is 1..MaxSegUnits grid steps
MaxSegUnits == 4
\* target_len is 1..MaxTargetUnits grid steps
MaxTargetUnits == 3
\* split_on_silence hands back at most MaxSilenceChunks chunks
MaxSilenceChunks == 2

\* number of download_file calls made one after another
NumDownloads == 2
\* a response body arrives in 0..MaxBodyChunks chunks of 8192 bytes
MaxBodyChunks == 2
\* seconds * 1000.0 is drawn in steps of 1/SrtDen ms
SrtDen == 4
\* ... from SrtSpread steps below to SrtSpread steps above each field boundary
SrtSpread == 6

\* ------------------------------------------------------- program constants
\* utils.py:89  if duration_ms < 800
MinTranscribeMs == 800
\* utils.py:232  if len(chunk) < 500: continue
MinChunkMs == 500

Calls == 1..NumCalls
Threads == 1..NumThreads
\* the max_retry arguments of the calls that run at the same time
ConcRetries == {0, 1}
Durations == {0} \cup {MinTranscribeMs - 1 + k : k \in 0..DurSpread}
None == "None"
\* no temporary path chosen yet
NoPath == <<>>
\* the transcripts recognize_google can hand back
Texts == {"", "salam"}

\* exception classes that the calls of the code raise; every one of them is a
\* subclass of Exception
LoadErrors == {"CouldntDecodeError"}
FsErrors == {"OSError"}
UnexpectedErrors == {"RuntimeError"}
ExceptionClasses ==
    LoadErrors \cup FsErrors \cup UnexpectedErrors
        \cup {"UnknownValueError", "WaitTimeoutError", "RequestError"}

VARIABLES
    \* ---- STTProcessor, one entry per worker: its current invocation
    pc,            \* position of the invocation
    loaded,        \* the file was loaded and normalized (lines 74-76)
    duration_ms,   \* len(audio_segment) after normalization
    max_retry,     \* the max_retry argument
    attempt,       \* loop variable of the retry loop
    calls,         \* number of r.recognize_google calls made
    slept,         \* seconds spent in time.sleep
    transient,     \* TRUE while every recognition attempt so far failed
                   \* with WaitTimeoutError or RequestError
    first,         \* outcome of the first recognition attempt
    temp_path,     \* <<thread id, uuid token>> of temp_segment_*.wav
    created,       \* the export of this invocation wrote temp_path
    unlink_raised, \* temp_path.unlink() raised in the finally block
    text,          \* what _transcribe_segment returned
    result,        \* what transcribe_audio returned
    raised,        \* exception that left transcribe_audio
    fault,         \* exception that reached one of the except Exception clauses
    files,         \* the files that exist in temp_audio_segments
    chunks_done,   \* number of results handed back to the pipeline
    \* ---- AudioSegmenter.segment_audio, one invocation
    seg_pc,          \* position of the invocation
    audio_len,       \* len(audio)
    max_segment_len, \* the max_segment_len argument
    target_len,      \* the target_len argument
    chunks,          \* the chunks before post-processing, as [start, end]
    fallback,        \* line 226 took the time-based chunking
    processed_chunks,\* the list built by lines 230-237
    segment_paths,   \* the chunks exported so far, in order
    \* ---- AudioDownloader.download_file, one call after another
    dl_pc,         \* position of the current call
    dl_calls,      \* number of calls begun
    dl_target,     \* the resolved filename of the current call
    dl_source,     \* the source_name argument
    dl_timeout,    \* the timeout argument
    dl_found,      \* line 179 found the file present
    dl_requests,   \* number of requests.get calls made by the current call
    dl_body,       \* number of chunks in the response body
    dl_written,    \* number of chunks the current call has written
    dl_fault,      \* exception raised inside the current call
    dl_result,     \* what the current call returned
    dl_prev,       \* the call before the current one
    dl_exists,     \* the filenames present in download_dir
    dl_bytes,      \* number of chunks each file in download_dir holds
    dl_whole,      \* the files that hold a whole response body
    \* ---- format_srt_time, one call
    srt_pc,        \* position of the call
    srt_q,         \* seconds * 1000.0, in units of 1/SrtDen ms
    srt_total,     \* round(seconds * 1000.0)
    srt_hours,
    srt_minutes,
    srt_seconds,
    srt_millis,
    srt_out        \* the string returned, one character per element

sttVars ==
    <<pc, loaded, duration_ms, max_retry, attempt, calls, slept, transient, first,
      temp_path, created, unlink_raised, text, result, raised, fault, files,
      chunks_done>>

segVars ==
    <<seg_pc, audio_len, max_segment_len, target_len, chunks, fallback,
      processed_chunks, segment_paths>>

dlVars ==
    <<dl_pc, dl_calls, dl_target, dl_source, dl_timeout, dl_found, dl_requests,
      dl_body, dl_written, dl_fault, dl_result, dl_prev, dl_exists, dl_bytes,
      dl_whole>>

srtVars ==
    <<srt_pc, srt_q, srt_total, srt_hours, srt_minutes, srt_seconds,
      srt_millis, srt_out>>

vars == <<sttVars, segVars, dlVars, srtVars>>

\* what the actions of one component leave alone
sttFrame == <<segVars, dlVars, srtVars>>
segFrame == <<sttVars, dlVars, srtVars>>
dlFrame == <<sttVars, segVars, srtVars>>
srtFrame == <<sttVars, segVars, dlVars>>

\* ================================================================ STTProcessor

\* utils.py:89, and the same test with the threshold one too low
TooShortOff(d) == d < MinTranscribeMs - 1
TooShort(d) == d < MinTranscribeMs

\* utils.py:99  except Exception as e, and a handler for load errors only
CaughtOff(e) == e \in LoadErrors
CaughtByTranscribeAudio(e) == e \in ExceptionClasses

\* utils.py:153  except Exception as e
CaughtBySegment(e) == e \in ExceptionClasses

\* utils.py:141, 148  if attempt < max_retry - 1, and the same test off by one
RetryOff(a, m) == a < m - 2
RetryAgain(a, m) == a < m - 1

\* utils.py:142, 149  time.sleep(2 ** attempt), and a wait that grows by two
\* seconds per attempt (2 * attempt)
BackoffOff(a) == 2 * a
Backoff(a) == 2 ^ a

\* utils.py:157  if temp_path.exists(), and a cleanup that never sees the file
ExistsOff(p, fs) == FALSE
Exists(p, fs) == p \in fs

\* utils.py:120  threading.get_ident(): an integer that no two threads alive at
\* the same time share; worker c runs on a thread of its own. ThreadIdentOff
\* is a name that leaves the thread out
ThreadIdentOff(c) == 0
ThreadIdent(c) == c

\* utils.py:121-124  temp_segment_{thread_id}_{uuid_str}.wav
TempPath(thread_id, uuid_str) == <<thread_id, uuid_str>>

\* utils.py:94  if not text, and a test for None alone (if text is None)
FalsyOff(t) == t = None
Falsy(t) == t = "" \/ t = None

NoResult == [type |-> "none", text |-> "", duration_ms |-> 0]
ErrorResult(msg, d) == [type |-> "error", text |-> msg, duration_ms |-> d]
TextResult(t, d) == [type |-> "text", text |-> t, duration_ms |-> d]

\* an exception raised inside the try block of transcribe_audio (line 71):
\* caught at line 99 and turned into an error record, else it leaves the call
Propagate(c, e) ==
    /\ pc' = [pc EXCEPT ![c] = "done"]
    /\ fault' = [fault EXCEPT ![c] = e]
    /\ IF CaughtByTranscribeAudio(e)
         THEN /\ result' = [result EXCEPT ![c] = ErrorResult(e, 0)]
              /\ UNCHANGED raised
         ELSE /\ raised' = [raised EXCEPT ![c] = e]
              /\ UNCHANGED result

\* lines 93-97: the value of _transcribe_segment becomes the result; an
\* exception that left _transcribe_segment goes to line 99
Deliver(c) ==
    IF text[c] \in ExceptionClasses
      THEN Propagate(c, text[c])
      ELSE /\ pc' = [pc EXCEPT ![c] = "done"]
           /\ result' = [result EXCEPT ![c] =
                  IF Falsy(text[c])
                    THEN ErrorResult("Could not transcribe audio", duration_ms[c])
                    ELSE TextResult(text[c], duration_ms[c])]
           /\ UNCHANGED <<raised, fault>>

\* an exception raised inside the try block of _transcribe_segment (line 127):
\* line 153 returns "" for it; the finally block runs next either way
SegmentRaises(c, e) ==
    /\ text' = [text EXCEPT ![c] = IF CaughtBySegment(e) THEN "" ELSE e]
    /\ fault' = [fault EXCEPT ![c] = e]
    /\ pc' = [pc EXCEPT ![c] = "finally"]

\* _transcribe_segment decides its return value t; the finally block runs next
SegmentReturns(c, t) ==
    /\ text' = [text EXCEPT ![c] = t]
    /\ pc' = [pc EXCEPT ![c] = "finally"]

\* one more r.recognize_google call has been made, with outcome class k
Called(c, k) ==
    /\ calls' = [calls EXCEPT ![c] = @ + 1]
    /\ first' = [first EXCEPT ![c] = IF calls[c] = 0 THEN k ELSE @]
    /\ transient' = [transient EXCEPT ![c] = @ /\ k = "transient"]

\* lines 74-76: AudioSegment.from_file / set_channels / set_frame_rate raise
TranscribeLoadFails(c) ==
    /\ pc[c] = "start"
    /\ \E e \in LoadErrors : Propagate(c, e)
    /\ UNCHANGED <<loaded, duration_ms, max_retry, attempt, calls, slept, transient,
                   first, temp_path, created, unlink_raised, text, files,
                   chunks_done>>
    /\ UNCHANGED sttFrame

\* lines 74-80: the file is loaded, then temp_dir.mkdir raises
TranscribeMkdirFails(c) ==
    /\ pc[c] = "start"
    /\ \E d \in Durations :
        duration_ms' = [duration_ms EXCEPT ![c] = d]
    /\ loaded' = [loaded EXCEPT ![c] = TRUE]
    /\ \E e \in FsErrors : Propagate(c, e)
    /\ UNCHANGED <<max_retry, attempt, calls, slept, transient,
                   first, temp_path, created, unlink_raised, text, files,
                   chunks_done>>
    /\ UNCHANGED sttFrame

\* lines 74-91: the segment is too short, no transcription is tried
TranscribeTooShort(c) ==
    /\ pc[c] = "start"
    /\ \E d \in Durations :
        /\ TooShort(d)
        /\ duration_ms' = [duration_ms EXCEPT ![c] = d]
        /\ result' = [result EXCEPT ![c] = ErrorResult("Segment too short", d)]
    /\ loaded' = [loaded EXCEPT ![c] = TRUE]
    /\ pc' = [pc EXCEPT ![c] = "done"]
    /\ UNCHANGED <<max_retry, attempt, calls, slept, transient, first,
                   temp_path, created, unlink_raised, text, raised, files,
                   fault, chunks_done>>
    /\ UNCHANGED sttFrame

\* lines 74-93: the call of _transcribe_segment
EnterSegment(c) ==
    /\ pc[c] = "start"
    /\ \E d \in Durations, m \in 0..MaxRetryBound :
        /\ ~TooShort(d)
        /\ duration_ms' = [duration_ms EXCEPT ![c] = d]
        /\ max_retry' = [max_retry EXCEPT ![c] = m]
    /\ loaded' = [loaded EXCEPT ![c] = TRUE]
    /\ pc' = [pc EXCEPT ![c] = "segment"]
    /\ UNCHANGED <<attempt, calls, slept, transient, first, temp_path,
                   created, unlink_raised, text, result, raised, files,
                   fault, chunks_done>>
    /\ UNCHANGED sttFrame

\* lines 109-125: recognizer, unique temp path, os.makedirs
SegmentSetup(c) ==
    /\ pc[c] = "segment"
    /\ \E tok \in 1..NumTokens :
        temp_path' = [temp_path EXCEPT ![c] = TempPath(ThreadIdent(c), tok)]
    /\ pc' = [pc EXCEPT ![c] = "export"]
    /\ UNCHANGED <<loaded, duration_ms, max_retry, attempt, calls, slept, transient,
                   first, created, unlink_raised, text, result, raised, files,
                   fault, chunks_done>>
    /\ UNCHANGED sttFrame

\* line 125: os.makedirs raises, outside the try block of _transcribe_segment
SegmentSetupFails(c) ==
    /\ pc[c] = "segment"
    /\ \E e \in FsErrors :
        /\ text' = [text EXCEPT ![c] = e]
        /\ Propagate(c, e)
    /\ UNCHANGED <<loaded, duration_ms, max_retry, attempt, calls, slept, transient,
                   first, temp_path, created, unlink_raised, files,
                   chunks_done>>
    /\ UNCHANGED sttFrame

\* lines 128-129: audio_segment.export writes the temporary WAV file
ExportOk(c) ==
    /\ pc[c] = "export"
    /\ files' = files \cup {temp_path[c]}
    /\ created' = [created EXCEPT ![c] = TRUE]
    /\ pc' = [pc EXCEPT ![c] = "record"]
    /\ UNCHANGED <<loaded, duration_ms, max_retry, attempt, calls, slept, transient,
                   first, temp_path, unlink_raised, text, result, raised,
                   fault, chunks_done>>
    /\ UNCHANGED sttFrame

\* line 129: the export raises, before or after the file came to exist
ExportFails(c) ==
    /\ pc[c] = "export"
    /\ \E e \in FsErrors, partial \in BOOLEAN :
        /\ files' = IF partial THEN files \cup {temp_path[c]} ELSE files
        /\ created' = [created EXCEPT ![c] = partial]
        /\ SegmentRaises(c, e)
    /\ UNCHANGED <<loaded, duration_ms, max_retry, attempt, calls, slept, transient,
                   first, temp_path, unlink_raised, result, raised,
                   chunks_done>>
    /\ UNCHANGED sttFrame

\* lines 131-132: sr.AudioFile opens the file and r.record reads it
RecordOk(c) ==
    /\ pc[c] = "record"
    /\ pc' = [pc EXCEPT ![c] = "attempt"]
    /\ UNCHANGED <<loaded, duration_ms, max_retry, attempt, calls, slept, transient,
                   first, temp_path, created, unlink_raised, text, result,
                   raised, files,
                   fault, chunks_done>>
    /\ UNCHANGED sttFrame

\* lines 131-132 raise
RecordFails(c) ==
    /\ pc[c] = "record"
    /\ \E e \in UnexpectedErrors : SegmentRaises(c, e)
    /\ UNCHANGED <<loaded, duration_ms, max_retry, attempt, calls, slept, transient,
                   first, temp_path, created, unlink_raised, result, raised,
                   files,
                   chunks_done>>
    /\ UNCHANGED sttFrame

\* line 135: recognize_google returns a transcript
RecognizeReturns(c) ==
    /\ pc[c] = "attempt"
    /\ attempt[c] < max_retry[c]
    /\ Called(c, "ok")
    /\ \E t \in Texts : SegmentReturns(c, t)
    /\ UNCHANGED <<loaded, duration_ms, max_retry, attempt, slept, temp_path, created,
                   unlink_raised, result, raised, files,
                   fault, chunks_done>>
    /\ UNCHANGED sttFrame

\* lines 136-138: sr.UnknownValueError, not retried
RecognizeUnknownValue(c) ==
    /\ pc[c] = "attempt"
    /\ attempt[c] < max_retry[c]
    /\ Called(c, "UnknownValueError")
    /\ SegmentReturns(c, "")
    /\ UNCHANGED <<loaded, duration_ms, max_retry, attempt, slept, temp_path, created,
                   unlink_raised, result, raised, files,
                   fault, chunks_done>>
    /\ UNCHANGED sttFrame

\* lines 140-145 and 147-152: back off and go round the loop again, or give
\* up on the last attempt
RetryOrGiveUp(c) ==
    /\ Called(c, "transient")
    /\ IF RetryAgain(attempt[c], max_retry[c])
         THEN /\ slept' = [slept EXCEPT ![c] = @ + Backoff(attempt[c])]
              /\ attempt' = [attempt EXCEPT ![c] = @ + 1]
              /\ UNCHANGED <<pc, text>>
         ELSE /\ SegmentReturns(c, "")
              /\ UNCHANGED <<slept, attempt>>
    /\ UNCHANGED <<loaded, duration_ms, max_retry, temp_path, created, unlink_raised,
                   result, raised, files,
                   fault, chunks_done>>

\* lines 139-145: sr.WaitTimeoutError
RecognizeTimesOut(c) ==
    /\ pc[c] = "attempt"
    /\ attempt[c] < max_retry[c]
    /\ RetryOrGiveUp(c)
    /\ UNCHANGED sttFrame

\* lines 146-152: sr.RequestError
RecognizeRequestError(c) ==
    /\ pc[c] = "attempt"
    /\ attempt[c] < max_retry[c]
    /\ RetryOrGiveUp(c)
    /\ UNCHANGED sttFrame

\* line 135 raises something else: line 153
RecognizeRaisesOther(c) ==
    /\ pc[c] = "attempt"
    /\ attempt[c] < max_retry[c]
    /\ Called(c, "unexpected")
    /\ \E e \in UnexpectedErrors : SegmentRaises(c, e)
    /\ UNCHANGED <<loaded, duration_ms, max_retry, attempt, slept, temp_path, created,
                   unlink_raised, result, raised, files,
                   chunks_done>>
    /\ UNCHANGED sttFrame

\* line 133: range(max_retry) is used up, the function falls off its end
LoopEnds(c) ==
    /\ pc[c] = "attempt"
    /\ ~(attempt[c] < max_retry[c])
    /\ SegmentReturns(c, None)
    /\ UNCHANGED <<loaded, duration_ms, max_retry, attempt, calls, slept, transient,
                   first, temp_path, created, unlink_raised, result, raised,
                   files,
                   fault, chunks_done>>
    /\ UNCHANGED sttFrame

\* lines 156-159, then 93-97: the temp file exists and is unlinked
CleanupUnlink(c) ==
    /\ pc[c] = "finally"
    /\ Exists(temp_path[c], files)
    /\ files' = files \ {temp_path[c]}
    /\ Deliver(c)
    /\ UNCHANGED <<loaded, duration_ms, max_retry, attempt, calls, slept, transient,
                   first, temp_path, created, unlink_raised, text,
                   chunks_done>>
    /\ UNCHANGED sttFrame

\* lines 156-161, then 93-97: unlink raises, a warning is logged
CleanupUnlinkRaises(c) ==
    /\ pc[c] = "finally"
    /\ Exists(temp_path[c], files)
    /\ unlink_raised' = [unlink_raised EXCEPT ![c] = TRUE]
    /\ Deliver(c)
    /\ UNCHANGED <<loaded, duration_ms, max_retry, attempt, calls, slept, transient,
                   first, temp_path, created, text, files,
                   chunks_done>>
    /\ UNCHANGED sttFrame

\* lines 156-157, then 93-97: there is no temp file to delete
CleanupNothing(c) ==
    /\ pc[c] = "finally"
    /\ ~Exists(temp_path[c], files)
    /\ Deliver(c)
    /\ UNCHANGED <<loaded, duration_ms, max_retry, attempt, calls, slept, transient,
                   first, temp_path, created, unlink_raised, text, files,
                   chunks_done>>
    /\ UNCHANGED sttFrame

\* no invocation has begun on any of the workers W
WorkersInit(W) ==
    /\ pc = [c \in W |-> "start"]
    /\ loaded = [c \in W |-> FALSE]
    /\ duration_ms = [c \in W |-> 0]
    /\ max_retry = [c \in W |-> 0]
    /\ attempt = [c \in W |-> 0]
    /\ calls = [c \in W |-> 0]
    /\ slept = [c \in W |-> 0]
    /\ transient = [c \in W |-> TRUE]
    /\ first = [c \in W |-> None]
    /\ temp_path = [c \in W |-> NoPath]
    /\ created = [c \in W |-> FALSE]
    /\ unlink_raised = [c \in W |-> FALSE]
    /\ text = [c \in W |-> "pending"]
    /\ result = [c \in W |-> NoResult]
    /\ raised = [c \in W |-> None]
    /\ fault = [c \in W |-> None]
    /\ files = {}
    /\ chunks_done = 0

STTInit == WorkersInit(Calls)

\* the pipeline takes the result record and hands the worker its next chunk;
\* an exception that left transcribe_audio has ended the worker's run
NextChunk(c) ==
    /\ pc[c] = "done"
    /\ raised[c] = None
    /\ chunks_done < NumChunks
    /\ chunks_done' = chunks_done + 1
    /\ pc' = [pc EXCEPT ![c] = "start"]
    /\ loaded' = [loaded EXCEPT ![c] = FALSE]
    /\ duration_ms' = [duration_ms EXCEPT ![c] = 0]
    /\ max_retry' = [max_retry EXCEPT ![c] = 0]
    /\ attempt' = [attempt EXCEPT ![c] = 0]
    /\ calls' = [calls EXCEPT ![c] = 0]
    /\ slept' = [slept EXCEPT ![c] = 0]
    /\ transient' = [transient EXCEPT ![c] = TRUE]
    /\ first' = [first EXCEPT ![c] = None]
    /\ temp_path' = [temp_path EXCEPT ![c] = NoPath]
    /\ created' = [created EXCEPT ![c] = FALSE]
    /\ unlink_raised' = [unlink_raised EXCEPT ![c] = FALSE]
    /\ text' = [text EXCEPT ![c] = "pending"]
    /\ result' = [result EXCEPT ![c] = NoResult]
    /\ fault' = [fault EXCEPT ![c] = None]
    /\ UNCHANGED <<raised, files>>
    /\ UNCHANGED sttFrame

\* the steps of one transcribe_audio invocation
Step(c) ==
    \/ TranscribeLoadFails(c)
    \/ TranscribeMkdirFails(c)
    \/ TranscribeTooShort(c)
    \/ EnterSegment(c)
    \/ SegmentSetup(c)
    \/ SegmentSetupFails(c)
    \/ ExportOk(c)
    \/ ExportFails(c)
    \/ RecordOk(c)
    \/ RecordFails(c)
    \/ RecognizeReturns(c)
    \/ RecognizeUnknownValue(c)
    \/ RecognizeTimesOut(c)
    \/ RecognizeRequestError(c)
    \/ RecognizeRaisesOther(c)
    \/ LoopEnds(c)
    \/ CleanupUnlink(c)
    \/ CleanupUnlinkRaises(c)
    \/ CleanupNothing(c)

\* ============================================================== AudioSegmenter

\* a chunk is the part [start, end) of the audio buffer
Chunk(a, b) == [start |-> a, end |-> b]
ChunkLen(ch) == ch.end - ch.start

RECURSIVE SumLen(_)
SumLen(cs) == IF cs = <<>> THEN 0 ELSE ChunkLen(Head(cs)) + SumLen(Tail(cs))

\* utils.py:228, 234  [x[i:i + target_len] for i in range(0, len(x), target_len)]
\* for x = the part [a, b) of the buffer, from offset i on
RECURSIVE SlicesFrom(_, _, _, _)
SlicesFrom(a, b, t, i) ==
    IF i >= b - a
      THEN <<>>
      ELSE <<Chunk(a + i, IF a + i + t < b THEN a + i + t ELSE b)>>
               \o SlicesFrom(a, b, t, i + t)

Slices(ch, t) == SlicesFrom(ch.start, ch.end, t, 0)

\* utils.py:232  if len(chunk) < 500: continue, and the same test with <=
SkipChunkOff(ch) == ChunkLen(ch) <= MinChunkMs
SkipChunk(ch) == ChunkLen(ch) < MinChunkMs

\* utils.py:233  if len(chunk) > max_segment_len
TooLong(ch, m) == ChunkLen(ch) > m

\* utils.py:230-237
RECURSIVE PostProcess(_, _, _)
PostProcess(cs, m, t) ==
    IF cs = <<>> THEN <<>>
    ELSE LET ch == Head(cs)
             rest == PostProcess(Tail(cs), m, t)
         IN  IF SkipChunk(ch) THEN rest
             ELSE IF TooLong(ch, m) THEN Slices(ch, t) \o rest
             ELSE <<ch>> \o rest

\* what pydub's split_on_silence can hand back for a buffer of n ms: up to
\* MaxSilenceChunks non-silent stretches, in order, none overlapping another
GridPoints(n) == {k * SegGran : k \in 0..(n \div SegGran)}
RECURSIVE Ascending(_)
Ascending(S) ==
    IF S = {} THEN <<>>
    ELSE LET lo == CHOOSE x \in S : \A y \in S : x <= y
         IN  <<lo>> \o Ascending(S \ {lo})
SilenceSplits(n) ==
    { [k \in 1..(Cardinality(S) \div 2) |->
          Chunk(Ascending(S)[2 * k - 1], Ascending(S)[2 * k])] :
      S \in { T \in SUBSET GridPoints(n) :
                  /\ Cardinality(T) % 2 = 0
                  /\ Cardinality(T) <= 2 * MaxSilenceChunks } }

SegInit ==
    /\ seg_pc = "start"
    /\ audio_len = 0
    /\ max_segment_len = 0
    /\ target_len = 0
    /\ chunks = <<>>
    /\ fallback = FALSE
    /\ processed_chunks = <<>>
    /\ segment_paths = <<>>

\* lines 212-216: the arguments, and the audio file is loaded
SegLoad ==
    /\ seg_pc = "start"
    /\ \E n \in 0..MaxAudioUnits, m \in 1..MaxSegUnits, t \in 1..MaxTargetUnits :
        /\ audio_len' = n * SegGran
        /\ max_segment_len' = m * SegGran
        /\ target_len' = t * SegGran
    /\ seg_pc' = "split"
    /\ UNCHANGED <<chunks, fallback, processed_chunks, segment_paths>>
    /\ UNCHANGED segFrame

\* line 216: AudioSegment.from_file raises, and segment_audio with it
SegLoadRaises ==
    /\ seg_pc = "start"
    /\ seg_pc' = "raised"
    /\ UNCHANGED <<audio_len, max_segment_len, target_len, chunks, fallback,
                   processed_chunks, segment_paths>>
    /\ UNCHANGED segFrame

\* lines 219-224: split_on_silence
SplitOnSilence ==
    /\ seg_pc = "split"
    /\ \E cs \in SilenceSplits(audio_len) : chunks' = cs
    /\ seg_pc' = "chunked"
    /\ UNCHANGED <<audio_len, max_segment_len, target_len, fallback,
                   processed_chunks, segment_paths>>
    /\ UNCHANGED segFrame

\* lines 226-237: no chunk came back, time-based chunking, then post-processing
ProcessFallback ==
    /\ seg_pc = "chunked"
    /\ chunks = <<>>
    /\ fallback' = TRUE
    /\ chunks' = Slices(Chunk(0, audio_len), target_len)
    /\ processed_chunks' = PostProcess(chunks', max_segment_len, target_len)
    /\ seg_pc' = "export"
    /\ UNCHANGED <<audio_len, max_segment_len, target_len, segment_paths>>
    /\ UNCHANGED segFrame

\* lines 226, 230-237: post-processing of the chunks split on silence
ProcessChunks ==
    /\ seg_pc = "chunked"
    /\ chunks # <<>>
    /\ processed_chunks' = PostProcess(chunks, max_segment_len, target_len)
    /\ seg_pc' = "export"
    /\ UNCHANGED <<audio_len, max_segment_len, target_len, chunks, fallback,
                   segment_paths>>
    /\ UNCHANGED segFrame

\* lines 242-245: the next chunk is exported to {source_id}_segment_{i + 1}.mp3
ExportChunk ==
    /\ seg_pc = "export"
    /\ Len(segment_paths) < Len(processed_chunks)
    /\ segment_paths' =
           Append(segment_paths, processed_chunks[Len(segment_paths) + 1])
    /\ UNCHANGED <<seg_pc, audio_len, max_segment_len, target_len, chunks,
                   fallback, processed_chunks>>
    /\ UNCHANGED segFrame

\* line 244: chunk.export raises, and segment_audio with it
ExportChunkRaises ==
    /\ seg_pc = "export"
    /\ Len(segment_paths) < Len(processed_chunks)
    /\ seg_pc' = "raised"
    /\ UNCHANGED <<audio_len, max_segment_len, target_len, chunks, fallback,
                   processed_chunks, segment_paths>>
    /\ UNCHANGED segFrame

\* line 247: return segment_paths
SegReturn ==
    /\ seg_pc = "export"
    /\ Len(segment_paths) = Len(processed_chunks)
    /\ seg_pc' = "done"
    /\ UNCHANGED <<audio_len, max_segment_len, target_len, chunks, fallback,
                   processed_chunks, segment_paths>>
    /\ UNCHANGED segFrame

SegNext ==
    \/ SegLoad
    \/ SegLoadRaises
    \/ SplitOnSilence
    \/ ProcessFallback
    \/ ProcessChunks
    \/ ExportChunk
    \/ ExportChunkRaises
    \/ SegReturn

\* ============================================================= AudioDownloader

\* a filename is <<stem, extension>>; <<>> stands for Python's None
NoName == <<>>
Sources == {"a", "b"}
GivenNames == {NoName, <<"a", ".mp3">>}
Timeouts == {30, 300}

\* subclasses of requests.Timeout, and the other exceptions of the try block
TimeoutErrors == {"ConnectTimeout", "ReadTimeout"}
RequestErrors == {"ConnectionError"}
StatusErrors == {"HTTPError", "ValueError"}
WriteErrors == {"OSError"}

\* utils.py:174-175  filename = f"{source_name}.mp3" when none is given
Resolve(source_name, filename) ==
    IF filename = NoName THEN <<source_name, ".mp3">> ELSE filename
Targets == {Resolve(src, fn) : src \in Sources, fn \in GivenNames}

\* utils.py:179  if file_path.exists(), and a test for a whole file instead
PresentWhole(f) == f \in dl_whole
Present(f) == f \in dl_exists

\* utils.py:196  except requests.Timeout, and a handler that never matches
IsTimeoutOff(e) == FALSE
IsTimeout(e) == e \in TimeoutErrors

NoError == [kind |-> "none", seconds |-> 0, message |-> ""]
\* utils.py:198  f"Download timeout after {timeout} seconds"
TimeoutMessage(t) ==
    [kind |-> "Download timeout after", seconds |-> t, message |-> ""]
\* utils.py:201  str(e)
ExceptionMessage(e) == [kind |-> "str(e)", seconds |-> 0, message |-> e]

DlResult(path, ok, err) == [path |-> path, success |-> ok, error |-> err]
NoDlResult == DlResult(NoName, FALSE, NoError)
NoPrev ==
    [target |-> NoName, requests |-> 0, success |-> FALSE, left |-> FALSE]

\* utils.py:199  except Exception as e
DlCaught(e) ==
    e \in TimeoutErrors \cup RequestErrors \cup StatusErrors \cup WriteErrors

\* utils.py:196-201: the exception e ends the call with a failed result
DlFail(e) ==
    /\ dl_fault' = e
    /\ IF IsTimeout(e)
         THEN /\ dl_result' =
                     DlResult(NoName, FALSE, TimeoutMessage(dl_timeout))
              /\ dl_pc' = "returned"
         ELSE IF DlCaught(e)
         THEN /\ dl_result' = DlResult(NoName, FALSE, ExceptionMessage(e))
              /\ dl_pc' = "returned"
         ELSE /\ dl_pc' = "raised"
              /\ UNCHANGED dl_result

DlInit ==
    /\ dl_pc = "idle"
    /\ dl_calls = 0
    /\ dl_target = NoName
    /\ dl_source = ""
    /\ dl_timeout = 0
    /\ dl_found = FALSE
    /\ dl_requests = 0
    /\ dl_body = 0
    /\ dl_written = 0
    /\ dl_fault = None
    /\ dl_result = NoDlResult
    /\ dl_prev = NoPrev
    /\ dl_exists = {}
    /\ dl_bytes = [f \in Targets |-> 0]
    /\ dl_whole = {}

\* lines 172-181: the file is there already, the download is skipped
DlSkip ==
    /\ dl_pc = "idle"
    /\ dl_calls < NumDownloads
    /\ \E src \in Sources, fn \in GivenNames, t \in Timeouts :
        /\ Present(Resolve(src, fn))
        /\ dl_target' = Resolve(src, fn)
        /\ dl_source' = src
        /\ dl_timeout' = t
        /\ dl_result' = DlResult(Resolve(src, fn), TRUE, NoError)
    /\ dl_found' = TRUE
    /\ dl_calls' = dl_calls + 1
    /\ dl_pc' = "returned"
    /\ UNCHANGED <<dl_requests, dl_body, dl_written, dl_fault, dl_prev,
                   dl_exists, dl_bytes, dl_whole>>
    /\ UNCHANGED dlFrame

\* lines 172-184: the file is not there, the try block is entered
DlBegin ==
    /\ dl_pc = "idle"
    /\ dl_calls < NumDownloads
    /\ \E src \in Sources, fn \in GivenNames, t \in Timeouts :
        /\ ~Present(Resolve(src, fn))
        /\ dl_target' = Resolve(src, fn)
        /\ dl_source' = src
        /\ dl_timeout' = t
    /\ dl_calls' = dl_calls + 1
    /\ dl_pc' = "get"
    /\ UNCHANGED <<dl_found, dl_requests, dl_body, dl_written, dl_fault,
                   dl_result, dl_prev, dl_exists, dl_bytes, dl_whole>>
    /\ UNCHANGED dlFrame

\* line 185: requests.get answers
DlGetOk ==
    /\ dl_pc = "get"
    /\ dl_requests' = dl_requests + 1
    /\ \E n \in 0..MaxBodyChunks : dl_body' = n
    /\ dl_pc' = "status"
    /\ UNCHANGED <<dl_calls, dl_target, dl_source, dl_timeout, dl_found,
                   dl_written, dl_fault, dl_result, dl_prev, dl_exists,
                   dl_bytes, dl_whole>>
    /\ UNCHANGED dlFrame

\* line 185: requests.get raises
DlGetFails ==
    /\ dl_pc = "get"
    /\ dl_requests' = dl_requests + 1
    /\ \E e \in TimeoutErrors \cup RequestErrors : DlFail(e)
    /\ UNCHANGED <<dl_calls, dl_target, dl_source, dl_timeout, dl_found,
                   dl_body, dl_written, dl_prev, dl_exists, dl_bytes, dl_whole>>
    /\ UNCHANGED dlFrame

\* lines 186-187: the status is good and content-length is read
DlStatusOk ==
    /\ dl_pc = "status"
    /\ dl_pc' = "open"
    /\ UNCHANGED <<dl_calls, dl_target, dl_source, dl_timeout, dl_found,
                   dl_requests, dl_body, dl_written, dl_fault, dl_result,
                   dl_prev, dl_exists, dl_bytes, dl_whole>>
    /\ UNCHANGED dlFrame

\* lines 186-187: raise_for_status or int(content-length) raises
DlStatusFails ==
    /\ dl_pc = "status"
    /\ \E e \in StatusErrors : DlFail(e)
    /\ UNCHANGED <<dl_calls, dl_target, dl_source, dl_timeout, dl_found,
                   dl_requests, dl_body, dl_written, dl_prev, dl_exists,
                   dl_bytes, dl_whole>>
    /\ UNCHANGED dlFrame

\* line 189: open(file_path, 'wb') creates the file, empty
DlOpenOk ==
    /\ dl_pc = "open"
    /\ dl_exists' = dl_exists \cup {dl_target}
    /\ dl_bytes' = [dl_bytes EXCEPT ![dl_target] = 0]
    /\ dl_whole' = IF dl_body = 0 THEN dl_whole \cup {dl_target} ELSE dl_whole
    /\ dl_pc' = "stream"
    /\ UNCHANGED <<dl_calls, dl_target, dl_source, dl_timeout, dl_found,
                   dl_requests, dl_body, dl_written, dl_fault, dl_result,
                   dl_prev>>
    /\ UNCHANGED dlFrame

\* line 189: open raises
DlOpenFails ==
    /\ dl_pc = "open"
    /\ \E e \in WriteErrors : DlFail(e)
    /\ UNCHANGED <<dl_calls, dl_target, dl_source, dl_timeout, dl_found,
                   dl_requests, dl_body, dl_written, dl_prev, dl_exists,
                   dl_bytes, dl_whole>>
    /\ UNCHANGED dlFrame

\* lines 191-193: the next chunk of the body is written
DlWriteChunk ==
    /\ dl_pc = "stream"
    /\ dl_written < dl_body
    /\ dl_written' = dl_written + 1
    /\ dl_bytes' = [dl_bytes EXCEPT ![dl_target] = @ + 1]
    /\ dl_whole' = IF dl_written + 1 = dl_body
                     THEN dl_whole \cup {dl_target} ELSE dl_whole
    /\ UNCHANGED <<dl_pc, dl_calls, dl_target, dl_source, dl_timeout, dl_found,
                   dl_requests, dl_body, dl_fault, dl_result, dl_prev,
                   dl_exists>>
    /\ UNCHANGED dlFrame

\* lines 191-192: iter_content or f.write raises; the with block closes the
\* file and leaves it where it is, with the chunks written so far
DlStreamFails ==
    /\ dl_pc = "stream"
    /\ \E e \in TimeoutErrors \cup RequestErrors \cup WriteErrors : DlFail(e)
    /\ UNCHANGED <<dl_calls, dl_target, dl_source, dl_timeout, dl_found,
                   dl_requests, dl_body, dl_written, dl_prev, dl_exists,
                   dl_bytes, dl_whole>>
    /\ UNCHANGED dlFrame

\* lines 191-195: the body is complete
DlStreamEnd ==
    /\ dl_pc = "stream"
    /\ dl_written = dl_body
    /\ dl_result' = DlResult(dl_target, TRUE, NoError)
    /\ dl_pc' = "returned"
    /\ UNCHANGED <<dl_calls, dl_target, dl_source, dl_timeout, dl_found,
                   dl_requests, dl_body, dl_written, dl_fault, dl_prev,
                   dl_exists, dl_bytes, dl_whole>>
    /\ UNCHANGED dlFrame

\* the caller takes the result; the next call starts afresh
DlNextCall ==
    /\ dl_pc = "returned"
    /\ dl_calls < NumDownloads
    /\ dl_prev' = [target |-> dl_target, requests |-> dl_requests,
                   success |-> dl_result.success,
                   left |-> dl_target \in dl_exists]
    /\ dl_pc' = "idle"
    /\ dl_target' = NoName
    /\ dl_source' = ""
    /\ dl_timeout' = 0
    /\ dl_found' = FALSE
    /\ dl_requests' = 0
    /\ dl_body' = 0
    /\ dl_written' = 0
    /\ dl_fault' = None
    /\ dl_result' = NoDlResult
    /\ UNCHANGED <<dl_calls, dl_exists, dl_bytes, dl_whole>>
    /\ UNCHANGED dlFrame

DlNext ==
    \/ DlSkip
    \/ DlBegin
    \/ DlGetOk
    \/ DlGetFails
    \/ DlStatusOk
    \/ DlStatusFails
    \/ DlOpenOk
    \/ DlOpenFails
    \/ DlWriteChunk
    \/ DlStreamFails
    \/ DlStreamEnd
    \/ DlNextCall

\* ============================================================== format_srt_time

\* main.py:95  round(): to the nearest integer, a tie goes to the even one;
\* RoundHalfUp sends a tie upwards instead
RoundHalfUp(q, den) ==
    IF 2 * (q % den) >= den THEN (q \div den) + 1 ELSE q \div den
Round(q, den) ==
    LET k == q \div den
        r == q % den
    IN  IF 2 * r < den THEN k
        ELSE IF 2 * r > den THEN k + 1
        ELSE IF k % 2 = 0 THEN k ELSE k + 1

\* main.py:96-98  divmod, and one with a wrong modulus
DivModOff(n, d) == <<n \div d, n % (d \div 10)>>
DivMod(n, d) == <<n \div d, n % d>>

\* main.py:99  the format specs 02d and 03d
DigitChars == <<"0", "1", "2", "3", "4", "5", "6", "7", "8", "9">>
RECURSIVE Digits(_)
Digits(n) ==
    IF n < 10 THEN <<DigitChars[n + 1]>>
    ELSE Digits(n \div 10) \o <<DigitChars[(n % 10) + 1]>>
RECURSIVE ZeroFill(_, _)
ZeroFill(ds, width) ==
    IF Len(ds) >= width THEN ds ELSE ZeroFill(<<"0">> \o ds, width)
FormatD(n, width) == ZeroFill(Digits(n), width)

\* main.py:99  f"{hours:02d}:{minutes:02d}:{seconds:02d},{milliseconds:03d}"
FormatSrt(h, m, sec, ms) ==
    FormatD(h, 2) \o <<":">> \o FormatD(m, 2) \o <<":">> \o FormatD(sec, 2)
        \o <<",">> \o FormatD(ms, 3)

\* the values of seconds * 1000.0 a call is made with: around 0 and around
\* each boundary of the seconds, minutes and hours fields
SrtBoundaries == {0, 1000, 60000, 3600000, 360000000}
SrtInputs ==
    {b * SrtDen + d : b \in SrtBoundaries, d \in (0 - SrtSpread)..SrtSpread}

SrtInit ==
    /\ srt_pc = "start"
    /\ srt_q = 0
    /\ srt_total = 0
    /\ srt_hours = 0
    /\ srt_minutes = 0
    /\ srt_seconds = 0
    /\ srt_millis = 0
    /\ srt_out = <<>>

\* the call is made with one of SrtInputs
SrtDraw ==
    /\ srt_pc = "start"
    /\ srt_q \in SrtInputs
    /\ srt_total = 0
    /\ srt_hours = 0
    /\ srt_minutes = 0
    /\ srt_seconds = 0
    /\ srt_millis = 0
    /\ srt_out = <<>>

\* main.py:94  the assertion fails for a negative timestamp
SrtAssertFails ==
    /\ srt_pc = "start"
    /\ srt_q < 0
    /\ srt_pc' = "raised"
    /\ UNCHANGED <<srt_q, srt_total, srt_hours, srt_minutes, srt_seconds,
                   srt_millis, srt_out>>
    /\ UNCHANGED srtFrame

\* main.py:94-95
SrtRound ==
    /\ srt_pc = "start"
    /\ srt_q >= 0
    /\ srt_total' = Round(srt_q, SrtDen)
    /\ srt_millis' = Round(srt_q, SrtDen)
    /\ srt_pc' = "hours"
    /\ UNCHANGED <<srt_q, srt_hours, srt_minutes, srt_seconds, srt_out>>
    /\ UNCHANGED srtFrame

\* main.py:96
SrtHours ==
    /\ srt_pc = "hours"
    /\ srt_hours' = DivMod(srt_millis, 3600000)[1]
    /\ srt_millis' = DivMod(srt_millis, 3600000)[2]
    /\ srt_pc' = "minutes"
    /\ UNCHANGED <<srt_q, srt_total, srt_minutes, srt_seconds, srt_out>>
    /\ UNCHANGED srtFrame

\* main.py:97
SrtMinutes ==
    /\ srt_pc = "minutes"
    /\ srt_minutes' = DivMod(srt_millis, 60000)[1]
    /\ srt_millis' = DivMod(srt_millis, 60000)[2]
    /\ srt_pc' = "seconds"
    /\ UNCHANGED <<srt_q, srt_total, srt_hours, srt_seconds, srt_out>>
    /\ UNCHANGED srtFrame

\* main.py:98
SrtSeconds ==
    /\ srt_pc = "seconds"
    /\ srt_seconds' = DivMod(srt_millis, 1000)[1]
    /\ srt_millis' = DivMod(srt_millis, 1000)[2]
    /\ srt_pc' = "format"
    /\ UNCHANGED <<srt_q, srt_total, srt_hours, srt_minutes, srt_out>>
    /\ UNCHANGED srtFrame

\* main.py:99
SrtFormat ==
    /\ srt_pc = "format"
    /\ srt_out' = FormatSrt(srt_hours, srt_minutes, srt_seconds, srt_millis)
    /\ srt_pc' = "done"
    /\ UNCHANGED <<srt_q, srt_total, srt_hours, srt_minutes, srt_seconds,
                   srt_millis>>
    /\ UNCHANGED srtFrame

SrtNext ==
    \/ SrtAssertFails
    \/ SrtRound
    \/ SrtHours
    \/ SrtMinutes
    \/ SrtSeconds
    \/ SrtFormat

Init == STTInit /\ SegInit /\ DlInit /\ SrtInit

Next == \E c \in Calls : Step(c) \/ NextChunk(c)

Spec == Init /\ [][Next]_vars

SegSpec == Init /\ [][SegNext]_vars

DlSpec == Init /\ [][DlNext]_vars

\* transcribe_audio on NumThreads threads at once, one invocation each, under
\* any interleaving of their steps
ConcInit == WorkersInit(Threads) /\ SegInit /\ DlInit /\ SrtInit

\* lines 74-93 for the calls that run at the same time: segments of 800 ms,
\* max_retry in ConcRetries
ConcEnterSegment(c) ==
    /\ EnterSegment(c)
    /\ duration_ms'[c] = MinTranscribeMs
    /\ max_retry'[c] \in ConcRetries

ConcStep(c) ==
    \/ TranscribeLoadFails(c)
    \/ TranscribeMkdirFails(c)
    \/ TranscribeTooShort(c)
    \/ ConcEnterSegment(c)
    \/ SegmentSetup(c)
    \/ SegmentSetupFails(c)
    \/ ExportOk(c)
    \/ ExportFails(c)
    \/ RecordOk(c)
    \/ RecordFails(c)
    \/ RecognizeReturns(c)
    \/ RecognizeUnknownValue(c)
    \/ RecognizeTimesOut(c)
    \/ RecognizeRequestError(c)
    \/ RecognizeRaisesOther(c)
    \/ LoopEnds(c)
    \/ CleanupUnlink(c)
    \/ CleanupUnlinkRaises(c)
    \/ CleanupNothing(c)

ConcNext == \E c \in Threads : ConcStep(c)

ConcSpec == ConcInit /\ [][ConcNext]_vars

SrtSpecInit == STTInit /\ SegInit /\ DlInit /\ SrtDraw

SrtSpec == SrtSpecInit /\ [][SrtNext]_vars

\* ====================================================================== claims

\* C1: a segment whose normalized duration is below 800 ms gets a result of
\* type error, with no recognition call made and _transcribe_segment never
\* entered (no temporary path chosen, no temporary file written).
C1_ShortSegmentNoCall ==
    \A c \in Calls :
        (loaded[c] /\ duration_ms[c] < 800) =>
            /\ pc[c] = "done"
            /\ result[c].type = "error"
            /\ calls[c] = 0
            /\ temp_path[c] = NoPath
            /\ ~created[c]

C1_Witness ==
    \E c \in Calls :
        /\ pc[c] = "done"
        /\ loaded[c]
        /\ duration_ms[c] = 799
        /\ result[c] = ErrorResult("Segment too short", 799)
        /\ calls[c] = 0

\* C2: with max_retry >= 1, once _transcribe_segment has left its retry loop:
\* if every attempt failed with a timeout or request error, exactly max_retry
\* recognition calls were made and it returns empty text; if the first attempt
\* failed with UnknownValueError, exactly one call was made and it returns
\* empty text.
C2_RetryCount ==
    \A c \in Calls :
        (pc[c] \in {"finally", "done"} /\ max_retry[c] >= 1 /\ calls[c] >= 1) =>
            /\ transient[c] => (calls[c] = max_retry[c] /\ text[c] = "")
            /\ first[c] = "UnknownValueError" => (calls[c] = 1 /\ text[c] = "")

C2_Witness ==
    \E c \in Calls :
        /\ pc[c] = "done"
        /\ max_retry[c] = MaxRetryBound
        /\ transient[c]
        /\ calls[c] = MaxRetryBound
        /\ slept[c] > 0
        /\ text[c] = ""

\* C3 as stated: when _transcribe_segment has returned or raised, the
\* temporary file it created no longer exists.
C3_TempFileGone ==
    \A c \in Calls :
        (pc[c] = "done" /\ created[c]) => temp_path[c] \notin files

\* C3 as amended: when _transcribe_segment has returned or raised, the
\* temporary file it created no longer exists, unless temp_path.unlink()
\* itself raised in the cleanup step.
C3_TempFileGoneUnlessUnlinkRaises ==
    \A c \in Calls :
        (pc[c] = "done" /\ created[c]) =>
            (temp_path[c] \notin files \/ unlink_raised[c])

C3_Witness ==
    \E c \in Calls :
        /\ pc[c] = "done"
        /\ created[c]
        /\ fault[c] = "RuntimeError"
        /\ ~unlink_raised[c]
        /\ temp_path[c] \notin files

\* C4: every chunk that segment_audio exports is at most max_segment_len long
\* and at least 500 ms long.
C4_ChunkBounds ==
    \A i \in 1..Len(segment_paths) :
        /\ ChunkLen(segment_paths[i]) <= max_segment_len
        /\ ChunkLen(segment_paths[i]) >= 500

\* C4 for the parameter choices like the defaults (5000 and 10000), those with
\* 500 <= target_len <= max_segment_len
C4_ChunkBoundsUsualParameters ==
    (500 <= target_len /\ target_len <= max_segment_len) => C4_ChunkBounds

\* C5 as stated: after the fallback to time-based chunking, the durations of
\* the exported chunks sum to the length of the buffer.
C5_FallbackCoversBuffer ==
    (seg_pc = "done" /\ fallback) => SumLen(segment_paths) = audio_len

\* the part of a buffer of n ms that time-based chunking at t ms loses to the
\* 500 ms filter
DroppedByFilter(n, t) ==
    IF t < 500 THEN n
    ELSE IF n % t > 0 /\ n % t < 500 THEN n % t
    ELSE 0

\* C5 as amended: after the fallback to time-based chunking, the exported
\* chunks are the target_len slices of the buffer in order, without gap or
\* overlap from 0 on, except that slices shorter than 500 ms are dropped: the
\* durations sum to the length of the buffer less the dropped slices (with
\* target_len >= 500, less a final remainder below 500 ms).
C5_FallbackCoversAllButShort ==
    (seg_pc = "done" /\ fallback) =>
        /\ SumLen(segment_paths) = audio_len - DroppedByFilter(audio_len, target_len)
        /\ \A i \in 1..Len(segment_paths) :
            /\ segment_paths[i].start = (i - 1) * target_len
            /\ segment_paths[i].end =
                   IF i * target_len < audio_len THEN i * target_len ELSE audio_len

C5_Witness ==
    /\ seg_pc = "done"
    /\ fallback
    /\ target_len >= 500
    /\ audio_len % target_len > 0
    /\ audio_len % target_len < 500
    /\ Len(segment_paths) >= 1
    /\ SumLen(segment_paths) < audio_len

\* C6 as stated: of two calls in sequence with the same resolved filename only
\* the first performs network I/O, and a call that finds the file present
\* returns success with that path without a request.
C6_SecondCallNoRequest ==
    dl_pc = "returned" =>
        /\ dl_prev.target = dl_target => dl_requests = 0
        /\ dl_found =>
            (dl_requests = 0 /\ dl_result = DlResult(dl_target, TRUE, NoError))

\* C6 as amended: of two calls in sequence with the same resolved filename the
\* second performs no network I/O when the first left a file at the target
\* path (as every successful call does); when the first failed before the
\* file was created, the second issues the GET again. A call that finds the
\* file present returns success with that path without a request.
C6_SecondCallNoRequestIfFileLeft ==
    dl_pc = "returned" =>
        /\ (dl_prev.target = dl_target /\ dl_prev.left) => dl_requests = 0
        /\ (dl_prev.target = dl_target /\ ~dl_prev.left) => dl_requests = 1
        /\ dl_prev.success => dl_prev.left
        /\ dl_found =>
            (dl_requests = 0 /\ dl_result = DlResult(dl_target, TRUE, NoError))

C6_Witness ==
    /\ dl_pc = "returned"
    /\ dl_prev.target = dl_target
    /\ dl_prev.requests = 1
    /\ dl_prev.success
    /\ dl_found
    /\ dl_requests = 0
    /\ dl_result.success

\* C7: a download_file call issues at most one HTTP request and returns a
\* result instead of raising: after a timeout, success False, no path and a
\* message naming the timeout; after any other failure, success False, no path
\* and the exception's message.
C7_OneRequestNoRaise ==
    /\ dl_requests <= 1
    /\ dl_pc # "raised"
    /\ dl_pc = "returned" =>
        /\ dl_fault \in {"ConnectTimeout", "ReadTimeout"} =>
               dl_result = DlResult(NoName, FALSE, TimeoutMessage(dl_timeout))
        /\ (dl_fault # None /\ dl_fault \notin {"ConnectTimeout", "ReadTimeout"}) =>
               dl_result = DlResult(NoName, FALSE, ExceptionMessage(dl_fault))
        /\ dl_fault = None => dl_result.success

C7_Witness ==
    /\ dl_pc = "returned"
    /\ dl_fault = "ReadTimeout"
    /\ dl_requests = 1
    /\ dl_target \notin dl_exists
    /\ dl_result = DlResult(NoName, FALSE, TimeoutMessage(300))

\* reading an HH:MM:SS,mmm string back into milliseconds
DigitValue(ch) == CHOOSE d \in 0..9 : DigitChars[d + 1] = ch
RECURSIVE ParseInt(_)
ParseInt(ds) ==
    IF ds = <<>> THEN 0
    ELSE ParseInt(SubSeq(ds, 1, Len(ds) - 1)) * 10 + DigitValue(ds[Len(ds)])
FirstIndex(str, ch) ==
    CHOOSE i \in 1..Len(str) : str[i] = ch /\ \A j \in 1..(i - 1) : str[j] # ch
DecodeSrt(str) ==
    LET c1 == FirstIndex(str, ":")
        rest1 == SubSeq(str, c1 + 1, Len(str))
        c2 == FirstIndex(rest1, ":")
        rest2 == SubSeq(rest1, c2 + 1, Len(rest1))
        c3 == FirstIndex(rest2, ",")
    IN  ParseInt(SubSeq(str, 1, c1 - 1)) * 3600000
            + ParseInt(SubSeq(rest1, 1, c2 - 1)) * 60000
            + ParseInt(SubSeq(rest2, 1, c3 - 1)) * 1000
            + ParseInt(SubSeq(rest2, c3 + 1, Len(rest2)))

\* C8: for t >= 0 the fields printed satisfy
\* h*3600000 + m*60000 + s*1000 + ms = round(t*1000), 0 <= m < 60, 0 <= s < 60,
\* 0 <= ms < 1000, and the printed string decodes back to that count.
C8_FieldsRoundTrip ==
    srt_pc = "done" =>
        /\ srt_hours * 3600000 + srt_minutes * 60000 + srt_seconds * 1000
               + srt_millis = srt_total
        /\ srt_hours >= 0
        /\ srt_minutes >= 0 /\ srt_minutes < 60
        /\ srt_seconds >= 0 /\ srt_seconds < 60
        /\ srt_millis >= 0 /\ srt_millis < 1000
        /\ DecodeSrt(srt_out) = srt_total
        /\ 2 * (SrtDen * srt_total - srt_q) <= SrtDen
        /\ 2 * (srt_q - SrtDen * srt_total) <= SrtDen

C8_Witness ==
    /\ srt_pc = "done"
    /\ srt_total = 3599999
    /\ srt_out = <<"0", "0", ":", "5", "9", ":", "5", "9", ",", "9", "9", "9">>

\* the value in milliseconds lies halfway between two integers
Tie == srt_q >= 0 /\ 2 * (srt_q % SrtDen) = SrtDen

\* C9 as stated: a value of k + 0.5 ms is formatted as k + 1 ms.
C9_HalfAwayFromZero ==
    (srt_pc = "done" /\ Tie) =>
        /\ srt_total = (srt_q \div SrtDen) + 1
        /\ DecodeSrt(srt_out) = (srt_q \div SrtDen) + 1

\* C9 as amended: format_srt_time rounds to the nearest millisecond with a
\* tie going to the even count: a value of k + 0.5 ms is formatted as k ms
\* when k is even and as k + 1 ms when k is odd.
C9_HalfToEven ==
    (srt_pc = "done" /\ Tie) =>
        /\ (srt_q \div SrtDen) % 2 = 0 => DecodeSrt(srt_out) = srt_q \div SrtDen
        /\ (srt_q \div SrtDen) % 2 = 1 =>
               DecodeSrt(srt_out) = (srt_q \div SrtDen) + 1

C9_Witness ==
    /\ srt_pc = "done"
    /\ Tie
    /\ srt_q \div SrtDen = 1000
    /\ DecodeSrt(srt_out) = 1000

C11_TextResultNonEmpty ==
    \A c \in Calls :
        pc[c] = "done" =>
            /\ result[c].type = "text" =>
                /\ result[c].text # ""
                /\ result[c].text # None
                /\ result[c].text = text[c]
                /\ result[c].duration_ms = duration_ms[c]
            /\ text[c] \in {"", None} =>
                result[c] = [type |-> "error",
                             text |-> "Could not transcribe audio",
                             duration_ms |-> duration_ms[c]]

C11_Witness ==
    \E c \in Calls :
        /\ pc[c] = "done"
        /\ first[c] = "ok"
        /\ text[c] = ""
        /\ duration_ms[c] = 800
        /\ result[c].type = "error"
        /\ result[c].text = "Could not transcribe audio"

\* C13: in _transcribe_segment with max_retry >= 1, a timeout or request error
\* on attempt a (counted from 0) is followed by a wait of 2^a seconds when
\* a < max_retry - 1 and by no wait on the final attempt: while every attempt
\* so far failed that way and the loop goes on, attempts 0..a have been made
\* and the waits add up to 2^0 + ... + 2^a; once the loop is left after such
\* failures only, max_retry calls were made, the waits add up to
\* 2^(max_retry-1) - 1 and the text returned is empty. An invocation makes at
\* most max_retry recognition calls and waits at most 2^(max_retry-1) - 1
\* seconds in all.
C13_ExponentialBackoff ==
    \A c \in Calls :
        (pc[c] \in {"attempt", "finally", "done"} /\ max_retry[c] >= 1) =>
            /\ calls[c] <= max_retry[c]
            /\ slept[c] <= 2 ^ (max_retry[c] - 1) - 1
            /\ (pc[c] = "attempt" /\ calls[c] >= 1) =>
                /\ transient[c]
                /\ attempt[c] = calls[c]
                /\ calls[c] < max_retry[c]
                /\ slept[c] = 2 ^ calls[c] - 1
            /\ (pc[c] \in {"finally", "done"} /\ calls[c] >= 1) =>
                /\ slept[c] = 2 ^ (calls[c] - 1) - 1
                /\ transient[c] =>
                    /\ calls[c] = max_retry[c]
                    /\ text[c] = ""

C13_Witness ==
    \E c \in Calls :
        /\ pc[c] = "done"
        /\ max_retry[c] = MaxRetryBound
        /\ transient[c]
        /\ calls[c] = MaxRetryBound
        /\ slept[c] = 2 ^ (MaxRetryBound - 1) - 1
        /\ slept[c] >= 3
        /\ result[c].type = "error"

\* C14: over any sequence of download_file calls, a call that returns
\* success = True returns the path of a file that holds a completely written
\* response body; a transfer that failed after the file was opened leaves no
\* partial file for a later call to report as a success.
C14_SuccessMeansWholeFile ==
    (dl_pc = "returned" /\ dl_result.success) =>
        /\ dl_result.path = dl_target
        /\ dl_target \in dl_exists
        /\ dl_target \in dl_whole

\* the invocation on thread c has chosen its temporary path and has not
\* returned yet
InFlight(c) == pc[c] \in {"export", "record", "attempt", "finally"}

\* C12: with any number of transcription calls running at the same time,
\* under any interleaving: the temporary paths of the calls in flight differ
\* from one another; the file a call has exported is there for as long as
\* that call reads it (no other call deletes it); and whenever a file is
\* removed, it is removed by the cleanup of the one call in flight whose
\* temporary path it is.
C12_OwnTempFile ==
    /\ [](\A c \in Threads :
            InFlight(c) =>
                /\ \A d \in Threads \ {c} :
                       InFlight(d) => temp_path[d] # temp_path[c]
                /\ pc[c] \in {"record", "attempt"} => temp_path[c] \in files)
    /\ [][\A p \in files \ files' :
            \E c \in Threads :
                /\ pc[c] = "finally"
                /\ pc'[c] = "done"
                /\ temp_path[c] = p
                /\ \A d \in Threads \ {c} :
                       InFlight(d) => temp_path[d] # p]_vars

C12_Witness ==
    \E c, d \in Threads :
        /\ c # d
        /\ pc[c] = "attempt"
        /\ pc[d] = "done"
        /\ created[d]
        /\ ~unlink_raised[d]
        /\ temp_path[c] \in files
        /\ temp_path[d] \notin files
        /\ temp_path[c][2] = temp_path[d][2]
====
